---- MODULE Spec2Model ----
(***************************************************************************)
(* Order intake of mcp_polydial_com: the MCP tools of app/main.py          *)
(* (Initiate_call, create_order, validate_order) and the service object    *)
(* of app/restaurants_tools.py (create_order, validate_order,              *)
(* prepare_invoice_lines, generate_detailed_sms_invoice,                   *)
(* send_confirmation_sms), with the Persistence API and the Messaging      *)
(* Gateway as the environment.                                             *)
(*                                                                         *)
(* Representation.                                                         *)
(*  - A Python dict is a function whose DOMAIN is the set of its keys, so  *)
(*    an absent key is a key outside the DOMAIN (dict.get is Get).         *)
(*  - A list is a sequence.  Python's None is the value None.              *)
(*  - Money is a decimal number counted in mills (1/1000 of a dollar):     *)
(*    10000 is $10.00, 1255 is $1.255.  Quantities are integers.  The      *)
(*    code computes on binary floats; the model computes on the exact      *)
(*    decimals, and where a value lies exactly half way between two cents  *)
(*    (where the float result depends on the representation error of the   *)
(*    operands) round(x, 2) and the format :.2f may go either way: the     *)
(*    direction is the nondeterministic choice fp.                         *)
(*  - The Persistence API answers with well-typed JSON: keys may be        *)
(*    missing, values have the types of the request.                       *)
(***************************************************************************)
EXTENDS Integers, Sequences, FiniteSets, TLC

VARIABLES
    sessions,    \* the CallInit records Initiate_call has returned
    pc,          \* "idle" | "persisting" | "notifying" | "done"
    op,          \* the tool being served: "none" | "create_order" | "validate_order"
    raw,         \* the tool's argument as the caller sent it
    order,       \* <<order_dict>> handed to restaurant_tools, <<>> before that
    persistLog,  \* requests.post calls of this invocation, in order
    res,         \* <<outcome>> of the Persistence API call, <<>> before it
    pricings,    \* prepare_invoice_lines calls of this invocation: input and output
    smsLog,      \* twilio messages.create calls of this invocation, in order
    fp,          \* direction of the half-way roundings of this invocation
    result,      \* <<what the tool returned or raised>>, <<>> while running
    env,         \* the process environment and the .env file: the signing secret
    now,         \* the clock, int(time.time()), in seconds
    issued,      \* <<what generate_jwt_token returned or raised>>, <<>> before it ran
    headers,     \* restaurant_tools.headers, EmptyDict before the module is imported
    probe,       \* the arguments of a function applied on its own, <<>> otherwise
    probed,      \* <<its result>>
    calls        \* the invocations running side by side, one record each; <<>> when
                 \* invocations are served one at a time

vars == <<sessions, pc, op, raw, order, persistLog, res, pricings, smsLog, fp, result,
          env, now, issued, headers, probe, probed, calls>>

----------------------------------------------------------------------------
(* Bounds of the model *)

MaxItems == 2
MaxClock == 3
MaxThreads == 2

----------------------------------------------------------------------------
(* Python primitives *)

None == "None"

EmptyDict == [k \in {} |-> 0]

Get(d, k, default) == IF k \in DOMAIN d THEN d[k] ELSE default

SetKey(d, k, v) == [x \in (DOMAIN d) \cup {k} |-> IF x = k THEN v ELSE d[x]]

Restrict(d, keys) == [x \in keys |-> d[x]]

\* bool(x) of a str-or-None value
Truthy(s) == s # None /\ s # ""

\* n/d rounded to the nearest multiple of unit, d > 0; tieUp decides the half-way case
RoundTo(n, d, unit, tieUp) ==
    LET q == n \div (d * unit)
        r == n % (d * unit)
    IN  IF 2 * r < d * unit THEN q * unit
        ELSE IF 2 * r > d * unit THEN (q + 1) * unit
        ELSE IF tieUp THEN (q + 1) * unit ELSE q * unit

MillsPerCent == 10

\* round(x, 2) of x = n/d mills: a whole number of cents, in mills
Round2(n, d, tieUp) == RoundTo(n, d, MillsPerCent, tieUp)

\* f"{x:.2f}" of x mills: the number of cents shown
Fmt2(x, tieUp) == RoundTo(x, 1, MillsPerCent, tieUp) \div MillsPerCent

----------------------------------------------------------------------------
(* restaurants_tools.py: pricing *)

TaxPercent == 9

\* ModifierStep with the is_active test left out
ModifierStepAlwaysActive(mod, show_prices, fmtUp) ==
    [lines |-> << IF show_prices
                  THEN [kind |-> "modifier", name |-> Get(mod, "name", ""),
                        qty |-> Get(mod, "quantity", 1),
                        unit_price |-> Fmt2(Get(mod, "price_delta", 0), fmtUp),
                        total |-> Fmt2(Get(mod, "quantity", 1) * Get(mod, "price_delta", 0), fmtUp)]
                  ELSE [kind |-> "modifier", qty |-> Get(mod, "quantity", 1),
                        name |-> Get(mod, "name", "")] >>,
     add |-> Get(mod, "quantity", 1) * Get(mod, "price_delta", 0)]

\* one modifier of the loop at lines 141-152: <<lines to append, amount added to item_total>>
ModifierStep(mod, show_prices, fmtUp) ==
    IF Get(mod, "is_active", TRUE) = TRUE
    THEN LET mod_qty == Get(mod, "quantity", 1)
             mod_price == Get(mod, "price_delta", 0)
             mod_name == Get(mod, "name", "")
             mod_line_total == mod_qty * mod_price
         IN  [lines |-> << IF show_prices
                           THEN [kind |-> "modifier", name |-> mod_name, qty |-> mod_qty,
                                 unit_price |-> Fmt2(mod_price, fmtUp),
                                 total |-> Fmt2(mod_line_total, fmtUp)]
                           ELSE [kind |-> "modifier", qty |-> mod_qty, name |-> mod_name] >>,
              add |-> mod_line_total]
    ELSE [lines |-> <<>>, add |-> 0]

\* lines.append(...) and item_total += mod_line_total
ModifierAdd(acc, s) ==
    [lines |-> acc.lines \o s.lines, item_total |-> acc.item_total + s.add]

\* for mod in modifiers
RECURSIVE ModifierLoop(_, _, _, _)
ModifierLoop(modifiers, acc, show_prices, fmtUp) ==
    IF modifiers = <<>> THEN acc
    ELSE ModifierLoop(Tail(modifiers),
                      ModifierAdd(acc, ModifierStep(Head(modifiers), show_prices, fmtUp)),
                      show_prices, fmtUp)

\* UnitPrice with price looked up first
UnitPricePriceFirst(item) == Get(item, "price", Get(item, "base_price", 0))

\* unit_price = float(item.get("base_price", item.get("price", 0)))
UnitPrice(item) == Get(item, "base_price", Get(item, "price", 0))

ItemLinePriced(name, qty, unit_price, show_prices, fmtUp) ==
    [lines |-> << [kind |-> "item", name |-> name, qty |-> qty,
                   unit_price |-> Fmt2(unit_price, fmtUp),
                   total |-> Fmt2(unit_price * qty, fmtUp)] >>,
     item_total |-> unit_price * qty]

\* the item line, lines 131-138: the line and base_total, which starts item_total
ItemLine(name, qty, unit_price, show_prices, fmtUp) ==
    [lines |-> << IF show_prices
                  THEN [kind |-> "item", name |-> name, qty |-> qty,
                        unit_price |-> Fmt2(unit_price, fmtUp),
                        total |-> Fmt2(unit_price * qty, fmtUp)]
                  ELSE [kind |-> "item", qty |-> qty, name |-> name] >>,
     item_total |-> unit_price * qty]

\* NoteAdd with the note put before the lines of its item
NoteAddFirst(m, note) ==
    [lines |-> (IF Truthy(note) THEN <<[kind |-> "note", text |-> note]>> ELSE <<>>) \o m.lines,
     item_total |-> m.item_total]

\* if note: lines.append(note), lines 154-155
NoteAdd(m, note) ==
    [lines |-> m.lines \o (IF Truthy(note) THEN <<[kind |-> "note", text |-> note]>> ELSE <<>>),
     item_total |-> m.item_total]

\* the body of the loop at lines 124-156 for one item
ItemStep(item, show_prices, fmtUp) ==
    NoteAdd(ModifierLoop(Get(item, "modifiers", <<>>),
                         ItemLine(Get(item, "name", "Unknown Item"), Get(item, "quantity", 1),
                                  UnitPrice(item), show_prices, fmtUp),
                         show_prices, fmtUp),
            Get(item, "note", ""))

\* ItemAdd with the item total rounded to cents before it is added
ItemAddRounded(acc, s) ==
    [lines |-> acc.lines \o s.lines,
     invoice_total |-> acc.invoice_total + Round2(s.item_total, 1, TRUE)]

\* lines of the item appended, invoice_total += item_total
ItemAdd(acc, s) ==
    [lines |-> acc.lines \o s.lines, invoice_total |-> acc.invoice_total + s.item_total]

\* for item in items
RECURSIVE ItemLoop(_, _, _, _)
ItemLoop(items, acc, show_prices, fmtUp) ==
    IF items = <<>> THEN acc
    ELSE ItemLoop(Tail(items), ItemAdd(acc, ItemStep(Head(items), show_prices, fmtUp)),
                  show_prices, fmtUp)

\* tax = round(invoice_total * tax_percentage, 2), in mills
Tax(invoice_total, f) == Round2(invoice_total * TaxPercent, 100, f.tax)

\* lines 157-159
Totals(l, f) ==
    [lines |-> l.lines,
     total |-> l.invoice_total,
     tax |-> Tax(l.invoice_total, f),
     grand_total |-> Round2(l.invoice_total + Tax(l.invoice_total, f), 1, f.grand)]

\* prepare_invoice_lines(items, lang, show_prices): lines, invoice_total, tax, grand_total
prepare_invoice_lines(items, lang, show_prices, f) ==
    Totals(ItemLoop(items, [lines |-> <<>>, invoice_total |-> 0], show_prices, f.fmt), f)

----------------------------------------------------------------------------
(* restaurants_tools.py: the receipt.  The Arabic labels are written in     *)
(* Latin transliteration.                                                   *)

LabelArabicUnlessEnglish(lang, ar, en) == IF lang = "en" THEN en ELSE ar

\* <arabic> if lang == "ar" else <english>
Label(lang, ar, en) == IF lang = "ar" THEN ar ELSE en

\* generate_detailed_sms_invoice(order, lang, show_prices): the lines that are
\* joined with "\n", and the prepare_invoice_lines call it makes (p is its result)
InvoiceLines(o, items, lang, show_prices, f, p) ==
    LET thank_you == Label(lang, "shukran li-talabik min Masrawy", "Thank you for your order from Masrawy")
        order_id_label == Label(lang, "raqm al-talab", "Order ID")
        total_label == Label(lang, "al-majmu", "Total")
        tax_label == Label(lang, "al-dariba", "Tax")
        grand_total_label == Label(lang, "al-ijmali", "Grand Total")
        head == << [kind |-> "text", text |-> thank_you],
                   [kind |-> "field", label |-> order_id_label,
                    value |-> Get(o, "externals_order_id", "")],
                   [kind |-> "text", text |-> "\n"] >>
        totals == (IF show_prices
                   THEN << [kind |-> "amount", label |-> total_label, cents |-> Fmt2(p.total, f.fmt)],
                           [kind |-> "amount", label |-> tax_label, cents |-> Fmt2(p.tax, f.fmt)] >>
                   ELSE <<>>)
                  \o << [kind |-> "amount", label |-> grand_total_label,
                         cents |-> Fmt2(p.grand_total, f.fmt)] >>
        closing == << [kind |-> "text",
                       text |-> Label(lang, "shukran li-talabik!", "Thank you for your order!")] >>
    IN  [body |-> head \o p.lines \o totals \o closing,
         pricing |-> [items |-> items, lang |-> lang, show_prices |-> show_prices, out |-> p]]

\* items = order.get("order", {}).get("items", [])
InvoiceItems(o) == Get(Get(o, "order", <<>>), "items", <<>>)

generate_detailed_sms_invoice_unpriced(o, lang, show_prices, f) ==
    InvoiceLines(o, InvoiceItems(o), lang, show_prices, f,
                 prepare_invoice_lines(InvoiceItems(o), lang, FALSE, f))

generate_detailed_sms_invoice(o, lang, show_prices, f) ==
    InvoiceLines(o, InvoiceItems(o), lang, show_prices, f,
                 prepare_invoice_lines(InvoiceItems(o), lang, show_prices, f))

----------------------------------------------------------------------------
(* What a call returns or raises, and the effects it had *)

Return(v) == [kind |-> "return", response |-> v]
Raise(e) == [kind |-> "raise", exc |-> e]

OrderCreated == "Order created successfully"
OrderFailed == "Order creation Failed"

\* Preview that also posts the order to the Persistence API
PreviewPosting(items, language_code, p) ==
    [result |-> Return([instruction |-> "confirm the order",
                        order_lines |-> p.lines,
                        grand_Total |-> p.grand_total]),
     pricings |-> << [items |-> items, lang |-> language_code,
                      show_prices |-> FALSE, out |-> p] >>,
     posts |-> << [url |-> "/api/restaurants/create_order",
                   payload |-> [order |-> [items |-> items]]] >>,
     sms |-> <<>>]

\* lines 115-118 of validate_order: p is what prepare_invoice_lines returned
Preview(items, language_code, p) ==
    [result |-> Return([instruction |-> "confirm the order",
                        order_lines |-> p.lines,
                        grand_Total |-> p.grand_total]),
     pricings |-> << [items |-> items, lang |-> language_code,
                      show_prices |-> FALSE, out |-> p] >>,
     posts |-> <<>>,
     sms |-> <<>>]

\* RestaurantTools.validate_order(order)
RT_validate_order(order_dict, f) ==
    IF ~({"items", "language_code"} \subseteq DOMAIN order_dict)
    THEN [result |-> Raise("KeyError"), pricings |-> <<>>, posts |-> <<>>, sms |-> <<>>]
    ELSE Preview(order_dict["items"], order_dict["language_code"],
                 prepare_invoice_lines(order_dict["items"], order_dict["language_code"], FALSE, f))

\* RT_create_order_post with one retry
RT_create_order_post_retry(order_dict, hdrs) ==
    << [url |-> "/api/restaurants/create_order", payload |-> [order |-> order_dict],
        headers |-> hdrs],
       [url |-> "/api/restaurants/create_order", payload |-> [order |-> order_dict],
        headers |-> hdrs] >>

\* RestaurantTools.create_order(order) up to requests.post: the request it sends
RT_create_order_post(order_dict, hdrs) ==
    << [url |-> "/api/restaurants/create_order", payload |-> [order |-> order_dict],
        headers |-> hdrs] >>

\* StatusBranch with the test written as: if res['status']
StatusBranchTruthy(body) ==
    IF "status" \notin DOMAIN body THEN "KeyError"
    ELSE IF body["status"] # "" THEN "success"
    ELSE "failed"

\* the branch create_order takes on the decoded body: "success" | "failed" | "KeyError"
StatusBranch(body) ==
    IF "status" \notin DOMAIN body THEN "KeyError"
    ELSE IF body["status"] = "success" THEN "success"
    ELSE "failed"

\* Rejected with the message of the success branch
RejectedAsCreated == [result |-> <<Return(OrderCreated)>>, pricings |-> <<>>, sms |-> <<>>]

\* line 109 of create_order: the else branch
Rejected == [result |-> <<Return(OrderFailed)>>, pricings |-> <<>>, sms |-> <<>>]

\* lines 105-106 of create_order: inv is what generate_detailed_sms_invoice returned
Confirm(order_dict, inv) ==
    IF ~({"business_phone", "customer_phone"} \subseteq DOMAIN order_dict)
    THEN [result |-> <<Raise("KeyError")>>, pricings |-> <<inv.pricing>>, sms |-> <<>>]
    ELSE [result |-> <<>>, pricings |-> <<inv.pricing>>,
          sms |-> << [body |-> inv.body,
                      from_ |-> order_dict["business_phone"],
                      to |-> order_dict["customer_phone"]] >>]

\* RestaurantTools.create_order(order) from the answer of requests.post on:
\* result is <<>> while the message is being sent
RT_create_order_answer(order_dict, outcome, f) ==
    IF outcome.kind = "network_error"
    THEN [result |-> <<Raise("RequestException")>>, pricings |-> <<>>, sms |-> <<>>]
    ELSE IF outcome.kind = "not_json"
    THEN [result |-> <<Raise("JSONDecodeError")>>, pricings |-> <<>>, sms |-> <<>>]
    ELSE     IF StatusBranch(outcome.body) = "KeyError"
             THEN [result |-> <<Raise("KeyError")>>, pricings |-> <<>>, sms |-> <<>>]
             ELSE IF StatusBranch(outcome.body) = "success"
             THEN Confirm(order_dict, generate_detailed_sms_invoice(outcome.body, "en", TRUE, f))
             ELSE Rejected

\* send_confirmation_sms returned or raised; create_order line 107
RT_create_order_sent(delivered) ==
    IF delivered THEN Return(OrderCreated) ELSE Raise("TwilioRestException")

----------------------------------------------------------------------------
(* utils.py: the bearer token.  A signed token is its payload, its         *)
(* algorithm and the key it was signed with.                               *)

DefaultValidity == 8640
Backdate == 60

\* os.getenv("JWT_SECRET_KEY") after lines 28-34: load_dotenv fills the variable
\* from the .env file only when the environment does not define it at all
SecretKey(e) ==
    IF e.environ # <<>> THEN e.environ[1]
    ELSE IF e.dotenv # <<>> THEN e.dotenv[1]
    ELSE ""

TokenPayloadNotBackdated(validity, t) ==
    [user_id |-> 999,
     email |-> "hanyelgaml@ideationmax.com",
     business_id |-> 999,
     role |-> "admin",
     exp |-> t + validity,
     iat |-> t,
     nbf |-> t]

\* the payload of lines 39-50 at clock reading t
TokenPayload(validity, t) ==
    [user_id |-> 999,
     email |-> "hanyelgaml@ideationmax.com",
     business_id |-> 999,
     role |-> "admin",
     exp |-> t + validity,
     iat |-> t - Backdate,
     nbf |-> t - Backdate]

\* jwt.encode(payload, key, algorithm='HS256')
JwtEncode(payload, key) == [payload |-> payload, alg |-> "HS256", signed_with |-> key]

\* JwtDecode without options={"verify_exp": False}
JwtDecodeVerifyingExp(token, key, t) ==
    IF token.signed_with # key \/ token.alg # "HS256" THEN <<>>
    ELSE IF token.payload.nbf > t \/ token.payload.iat > t THEN <<>>
    ELSE IF token.payload.exp <= t THEN <<>>
    ELSE <<token.payload>>

\* jwt.decode(token, key, algorithms=['HS256'], options={"verify_exp": False}) at
\* clock reading t: <<payload>>, or <<>> when it raises
JwtDecode(token, key, t) ==
    IF token.signed_with # key \/ token.alg # "HS256" THEN <<>>
    ELSE IF token.payload.nbf > t \/ token.payload.iat > t THEN <<>>
    ELSE <<token.payload>>

\* lines 52-63: the token is returned when decoding it did not raise
SelfChecked(token, decoded) ==
    IF decoded = <<>> THEN Raise("Exception") ELSE Return(token)

generate_jwt_token_unchecked(validity, e, t) ==
    SelfChecked(JwtEncode(TokenPayload(validity, t), SecretKey(e)),
                JwtDecode(JwtEncode(TokenPayload(validity, t), SecretKey(e)),
                          SecretKey(e), t))

\* generate_jwt_token(validity) in environment e at clock reading t
generate_jwt_token(validity, e, t) ==
    IF SecretKey(e) = ""
    THEN Raise("Exception")
    ELSE SelfChecked(JwtEncode(TokenPayload(validity, t), SecretKey(e)),
                     JwtDecode(JwtEncode(TokenPayload(validity, t), SecretKey(e)),
                               SecretKey(e), t))

\* RestaurantTools.__init__, lines 30-33: self.headers from the token
HeadersOf(tok) ==
    ("Content-Type" :> "application/json")
    @@ ("Authorization" :> [scheme |-> "Bearer", token |-> tok.response])

----------------------------------------------------------------------------
(* main.py: the data models.  A tool argument is validated against its    *)
(* model before the tool's body runs: a required field that is missing    *)
(* rejects the call, a field the model does not declare is dropped, and   *)
(* order.dict() holds exactly the declared fields.                        *)

ModifierFields ==
    {"modifier_group_id", "modifier_id", "name", "price_delta", "quantity", "is_active"}

\* ItemRequired with options: List[dict] without its default
ItemRequiredWithOptions ==
    {"item_id", "name", "base_price", "quantity", "note", "modifiers", "options"}

ItemRequired == {"item_id", "name", "base_price", "quantity", "note", "modifiers"}

\* OrderRequired with items: List[Item] given a default
OrderRequiredLax == {"call_sid", "language_code", "business_phone", "customer_phone"}

OrderRequired == {"call_sid", "language_code", "business_phone", "customer_phone", "items"}

OrderFields == {"call_sid", "language_code", "business_phone", "customer_phone", "items"}

ModifierValid(m) == ModifierFields \subseteq DOMAIN m

ItemValid(it) ==
    /\ ItemRequired \subseteq DOMAIN it
    /\ \A i \in 1..Len(it["modifiers"]) : ModifierValid(it["modifiers"][i])

OrderValid(r) ==
    /\ OrderRequired \subseteq DOMAIN r
    /\ "items" \in DOMAIN r => \A i \in 1..Len(r["items"]) : ItemValid(r["items"][i])

\* Item(...).dict(): options = Field(default_factory=list)
ItemDict(it) ==
    [k \in ItemRequired \cup {"options"} |->
        IF k = "modifiers"
        THEN [i \in 1..Len(it["modifiers"]) |-> Restrict(it["modifiers"][i], ModifierFields)]
        ELSE IF k = "options" THEN Get(it, "options", <<>>)
        ELSE it[k]]

\* Order(...).dict()
OrderDict(r) ==
    [k \in OrderFields \cap DOMAIN r |->
        IF k = "items" THEN [i \in 1..Len(r["items"]) |-> ItemDict(r["items"][i])]
        ELSE r[k]]

----------------------------------------------------------------------------
(* main.py: the tools *)

HardCustomerId == 33
HardBusinessId == 97

\* Initiate_call(business_phone, customer_phone, call_sid): the CallInit it returns.
\* customer_id and business_id are the strings "33" and "97": sequences of digits
Initiate_call_result(call_sid) ==
    [call_sid |-> call_sid,
     customer_id |-> <<3, 3>>,
     customer_name |-> "Mamdouh",
     business_id |-> <<9, 7>>,
     business_name |-> "Kaware3",
     language |-> "en"]

\* OverrideIds with the two assignments left out
OverrideIdsSkipped(order_dict) == order_dict

\* order_dict['customer_id'] = 33; order_dict['business_id'] = 97
OverrideIds(order_dict) ==
    SetKey(SetKey(order_dict, "customer_id", HardCustomerId), "business_id", HardBusinessId)

\* EnsureOptions that appends an empty option to every item
EnsureOptionsAppending(order_dict) ==
    IF "items" \in DOMAIN order_dict
    THEN [order_dict EXCEPT !["items"] =
             [i \in 1..Len(@) |-> SetKey(@[i], "options",
                                         Get(@[i], "options", <<>>) \o <<EmptyDict>>)]]
    ELSE order_dict

\* if 'items' in order_dict: every item without 'options' gets options = []
EnsureOptions(order_dict) ==
    IF "items" \in DOMAIN order_dict
    THEN [order_dict EXCEPT !["items"] =
             [i \in 1..Len(@) |-> IF "options" \in DOMAIN @[i] THEN @[i]
                                  ELSE SetKey(@[i], "options", <<>>)]]
    ELSE order_dict

\* lines 217-227 and 246-256: what create_order and validate_order hand on
NormalizeOrder(r) == EnsureOptions(OverrideIds(OrderDict(r)))

\* validate_order(order: Order), lines 232-259, with the effects it had
validate_order(r, f) ==
    IF ~OrderValid(r)
    THEN [order |-> <<>>, result |-> Raise("ValidationError"),
          pricings |-> <<>>, posts |-> <<>>, sms |-> <<>>]
    ELSE [order |-> <<NormalizeOrder(r)>>] @@ RT_validate_order(NormalizeOrder(r), f)

\* create_order(order: Order), lines 175-229, up to the request to the Persistence API
create_order(r, hdrs) ==
    IF ~OrderValid(r)
    THEN [order |-> <<>>, result |-> <<Raise("ValidationError")>>, posts |-> <<>>]
    ELSE [order |-> <<NormalizeOrder(r)>>, result |-> <<>>,
          posts |-> RT_create_order_post(NormalizeOrder(r), hdrs)]

----------------------------------------------------------------------------
(* The inputs: what a caller sends, what the Persistence API answers *)

SeqsUpTo(S, lo, hi) == UNION {[1..k -> S] : k \in lo..hi}

Sauce(active) ==
    [modifier_group_id |-> 1, modifier_id |-> 11, name |-> "Extra sauce",
     price_delta |-> 1500, quantity |-> 2, is_active |-> active]

HalfPortion ==
    [modifier_group_id |-> 2, modifier_id |-> 21, name |-> "Half portion",
     price_delta |-> -500, quantity |-> 1, is_active |-> TRUE]

GiftWrap ==
    [modifier_group_id |-> 2, modifier_id |-> 22, name |-> "Gift wrap",
     price_delta |-> 995, quantity |-> 3, is_active |-> FALSE]

Koshari(active) ==
    [item_id |-> 1, name |-> "Koshari", base_price |-> 10000, quantity |-> 2,
     note |-> None, modifiers |-> <<Sauce(active)>>, options |-> <<>>]

\* no options
Tea ==
    [item_id |-> 2, name |-> "Tea", base_price |-> 500, quantity |-> 1,
     note |-> "no sugar", modifiers |-> <<>>]

\* base_price and price
Falafel ==
    [item_id |-> 3, name |-> "Falafel", base_price |-> 1255, price |-> 9000, quantity |-> 1,
     note |-> "", modifiers |-> <<HalfPortion, GiftWrap>>, options |-> <<[size |-> "L"]>>]

\* no base_price
Fries ==
    [item_id |-> 4, name |-> "Fries", price |-> 700, quantity |-> 1,
     note |-> None, modifiers |-> <<>>, options |-> <<>>]

\* no note
Water ==
    [item_id |-> 5, name |-> "Water", base_price |-> 1000, quantity |-> 3,
     modifiers |-> <<>>, options |-> <<>>]

RawItemPool == {Koshari(TRUE), Koshari(FALSE), Tea, Falafel, Fries, Water}

CallSids == {"CA1"}

RawOrders ==
    { [call_sid |-> sid, language_code |-> lang,
       business_phone |-> "+15550001", customer_phone |-> "+15550002"] @@ its @@ ids :
        sid \in CallSids,
        lang \in {"en", "ar"},
        its \in {EmptyDict} \cup {("items" :> l) : l \in SeqsUpTo(RawItemPool, 0, MaxItems)},
        ids \in {EmptyDict, [customer_id |-> 7, business_id |-> 8]} }

\* items as another catalog shape writes them
PricedOnly == [name |-> "Koshari", price |-> 9000, quantity |-> 1]

Unpriced ==
    [name |-> "Mystery box", quantity |-> 2,
     modifiers |-> <<[name |-> "Extra sauce", price_delta |-> 1500]>>]

BothPrices ==
    [name |-> "Falafel", base_price |-> 1255, price |-> 9000, note |-> "well done",
     modifiers |-> <<[name |-> "Gift wrap", price_delta |-> 995, is_active |-> FALSE],
                     [name |-> "Tahini", price_delta |-> 250]>>]

\* the items lists the Persistence API answers with, besides the order's own
RespItemLists == {<<PricedOnly>>, <<Unpriced>>, <<BothPrices, PricedOnly>>}

RespOrders(order_dict) ==
    {EmptyDict}
    \cup (IF "items" \in DOMAIN order_dict THEN {order_dict} ELSE {})
    \cup {[items |-> l] : l \in RespItemLists}

Bodies(order_dict) ==
    {[error |-> "internal error"], [status |-> "failed"], [status |-> "error"]}
    \cup { [status |-> "success"] @@ o @@ x :
              o \in {EmptyDict} \cup {("order" :> od) : od \in RespOrders(order_dict)},
              x \in {EmptyDict, [externals_order_id |-> "501"]} }

PersistOutcomes(order_dict) ==
    {[kind |-> "network_error"], [kind |-> "not_json"]}
    \cup {[kind |-> "json", body |-> b] : b \in Bodies(order_dict)}

FP == [tax : BOOLEAN, grand : BOOLEAN, fmt : BOOLEAN]

NoFP == [tax |-> FALSE, grand |-> FALSE, fmt |-> FALSE]

----------------------------------------------------------------------------
(* The state machine: one tool call in flight at a time *)

\* the signing secret: in the environment (possibly empty), in the .env file, or nowhere
Envs == [environ : {<<>>, <<"">>, <<"k1">>}, dotenv : {<<>>, <<"k2">>}]

\* nothing is being served and nothing has been imported
Quiet ==
    /\ sessions = {}
    /\ op = "none"
    /\ raw = EmptyDict
    /\ order = <<>>
    /\ persistLog = <<>>
    /\ res = <<>>
    /\ pricings = <<>>
    /\ smsLog = <<>>
    /\ fp = NoFP
    /\ result = <<>>
    /\ issued = <<>>
    /\ headers = EmptyDict
    /\ probed = <<>>

\* the process starts: main.py is about to import restaurants_tools
Init ==
    /\ Quiet
    /\ pc = "boot"
    /\ env \in {e \in Envs : e.dotenv = <<>> \/ e.environ = <<"">>}
    /\ now = 1000
    /\ probe = <<>>
    /\ calls = <<>>

\* restaurant_tools = RestaurantTools(): the token is issued and kept in the headers;
\* when generate_jwt_token raises, the import fails and the process ends
Imported(tok) ==
    /\ issued' = <<tok>>
    /\ headers' = IF tok.kind = "return" THEN HeadersOf(tok) ELSE EmptyDict
    /\ pc' = IF tok.kind = "return" THEN "idle" ELSE "crashed"

Startup ==
    /\ pc = "boot"
    /\ Imported(generate_jwt_token(DefaultValidity, env, now))
    /\ UNCHANGED <<sessions, op, raw, order, persistLog, res, pricings, smsLog, fp, result,
                   env, now, probe, probed, calls>>

\* the tool Initiate_call
InitiateCall ==
    /\ pc = "idle"
    /\ \E sid \in CallSids : sessions' = sessions \cup {Initiate_call_result(sid)}
    /\ UNCHANGED <<pc, op, raw, order, persistLog, res, pricings, smsLog, fp, result>>
    /\ UNCHANGED <<env, now, issued, headers, probe, probed, calls>>

\* a tool ran from its call to its return: its effects and its result
Returned(e) ==
    /\ order' = e.order
    /\ pricings' = e.pricings
    /\ persistLog' = e.posts
    /\ smsLog' = e.sms
    /\ result' = <<e.result>>
    /\ pc' = "done"

\* a tool ran from its call to its first outbound request (or to its rejection)
Requested(e) ==
    /\ order' = e.order
    /\ persistLog' = e.posts
    /\ result' = e.result
    /\ pc' = IF e.result = <<>> THEN "persisting" ELSE "done"

\* a tool ran from the answer to its request to its next request (or to its end)
Answered(e, f) ==
    /\ fp' = IF e.pricings = <<>> THEN NoFP ELSE f
    /\ pricings' = e.pricings
    /\ smsLog' = e.sms
    /\ result' = e.result
    /\ pc' = IF e.result = <<>> THEN "notifying" ELSE "done"

\* the tool validate_order, from the call to its return
ValidateOrder ==
    /\ pc = "idle"
    /\ \E r \in RawOrders, f \in FP :
        /\ f.fmt = FALSE
        /\ raw' = r
        /\ fp' = f
        /\ Returned(validate_order(r, f))
    /\ op' = "validate_order"
    /\ UNCHANGED <<sessions, res>>
    /\ UNCHANGED <<env, now, issued, headers, probe, probed, calls>>

\* the tool create_order, from the call to requests.post (or to its rejection)
CreateOrder ==
    /\ pc = "idle"
    /\ \E r \in RawOrders :
        /\ raw' = r
        /\ Requested(create_order(r, headers))
    /\ op' = "create_order"
    /\ UNCHANGED <<sessions, res, pricings, smsLog, fp>>
    /\ UNCHANGED <<env, now, issued, headers, probe, probed, calls>>

\* requests.post answers; create_order runs on to messages.create or to its end
PersistenceAnswers ==
    /\ pc = "persisting"
    /\ \E outcome \in PersistOutcomes(order[1]), f \in FP :
        /\ res' = <<outcome>>
        /\ Answered(RT_create_order_answer(order[1], outcome, f), f)
    /\ UNCHANGED <<sessions, op, raw, order, persistLog>>
    /\ UNCHANGED <<env, now, issued, headers, probe, probed, calls>>

\* messages.create returns or raises; create_order ends
MessagingAnswers ==
    /\ pc = "notifying"
    /\ \E delivered \in BOOLEAN : result' = <<RT_create_order_sent(delivered)>>
    /\ pc' = "done"
    /\ UNCHANGED <<sessions, op, raw, order, persistLog, res, pricings, smsLog, fp>>
    /\ UNCHANGED <<env, now, issued, headers, probe, probed, calls>>

\* the served process stays up: a validity window goes by on the clock.  Nothing in
\* the process reads the clock again (time.time() is called at utils.py line 39 only)
Tick ==
    /\ pc \notin {"boot", "crashed"}
    /\ now <= 1000 + MaxClock
    /\ now' = now + DefaultValidity
    /\ UNCHANGED <<sessions, pc, op, raw, order, persistLog, res, pricings, smsLog, fp,
                   result, env, issued, headers, probe, probed, calls>>

\* the caller has the result; the next call may come
NextCall ==
    /\ pc = "done"
    /\ pc' = "idle"
    /\ op' = "none"
    /\ raw' = EmptyDict
    /\ order' = <<>>
    /\ persistLog' = <<>>
    /\ res' = <<>>
    /\ pricings' = <<>>
    /\ smsLog' = <<>>
    /\ fp' = NoFP
    /\ result' = <<>>
    /\ UNCHANGED <<sessions, env, now, issued, headers, probe, probed, calls>>

Next ==
    \/ Startup
    \/ InitiateCall
    \/ ValidateOrder
    \/ CreateOrder
    \/ PersistenceAnswers
    \/ MessagingAnswers
    \/ NextCall
    \/ Tick

Spec == Init /\ [][Next]_vars

\* The steps the process takes by itself are taken: the import completes and a
\* finished call is handed back.  Calls arrive, the clock advances and the
\* Persistence API and the Messaging Gateway answer when they do, or never:
\* requests.post (line 102) and messages.create (line 196) are given no timeout.
LiveSpec == Spec /\ WF_vars(Startup) /\ WF_vars(NextCall)

----------------------------------------------------------------------------
(* generate_jwt_token on its own: any environment, any clock reading, the  *)
(* validity given or left to its default.                                  *)

Validities == {0, 1, Backdate, DefaultValidity}

TokenCalls ==
    [fn : {"generate_jwt_token"}, args : {EmptyDict} \cup [validity : Validities]]

TokenInit ==
    /\ Quiet
    /\ pc = "probe"
    /\ env \in Envs
    /\ now \in 1000..(1000 + MaxClock)
    /\ probe \in TokenCalls
    /\ calls = <<>>

IssueToken ==
    /\ pc = "probe"
    /\ probe.fn = "generate_jwt_token"
    /\ issued' = <<generate_jwt_token(Get(probe.args, "validity", DefaultValidity), env, now)>>
    /\ pc' = "done"
    /\ UNCHANGED <<sessions, op, raw, order, persistLog, res, pricings, smsLog, fp, result,
                   env, now, headers, probe, probed, calls>>

TokenNext == IssueToken

TokenSpec == TokenInit /\ [][TokenNext]_vars

----------------------------------------------------------------------------
(* Properties *)

Abs(x) == IF x < 0 THEN -x ELSE x

RECURSIVE SumSeq(_)
SumSeq(q) == IF q = <<>> THEN 0 ELSE Head(q) + SumSeq(Tail(q))

\* v is a whole number of cents and no other whole number of cents is nearer to n/d
IsRound2(v, n, d) == v % 10 = 0 /\ 2 * Abs(v * d - n) <= 10 * d

Active(mod) == ~("is_active" \in DOMAIN mod /\ mod["is_active"] = FALSE)

ModifierAmounts(mods) ==
    [j \in 1..Len(mods) |->
        IF Active(mods[j])
        THEN Get(mods[j], "price_delta", 0) * Get(mods[j], "quantity", 1)
        ELSE 0]

ItemAmounts(items) ==
    [i \in 1..Len(items) |->
        Get(items[i], "base_price", Get(items[i], "price", 0)) * Get(items[i], "quantity", 1)
        + SumSeq(ModifierAmounts(Get(items[i], "modifiers", <<>>)))]

Money(out) == <<out.total, out.tax, out.grand_total>>

\* C1: every call of prepare_invoice_lines returns as subtotal the exact sum over the
\* items of unit_price * quantity plus price_delta * quantity of the active
\* modifiers, as tax the subtotal times 0.09 rounded to cents and as grand total
\* subtotal + tax rounded to cents; the item 10.00 x 2 with an active modifier
\* 1.50 x 2 gives 23.00, 2.07 and 25.07.
C1_PricingFormula ==
    \A i \in 1..Len(pricings) :
        /\ pricings[i].out.total = SumSeq(ItemAmounts(pricings[i].items))
        /\ IsRound2(pricings[i].out.tax, pricings[i].out.total * 9, 100)
        /\ IsRound2(pricings[i].out.grand_total,
                    pricings[i].out.total + pricings[i].out.tax, 1)
        /\ pricings[i].items = <<Koshari(TRUE)>> =>
               Money(pricings[i].out) = <<23000, 2070, 25070>>

C1_Witness ==
    \E i \in 1..Len(pricings) :
        /\ pricings[i].items = <<Koshari(TRUE)>>
        /\ Money(pricings[i].out) = <<23000, 2070, 25070>>

StripInactive(items) ==
    [i \in 1..Len(items) |->
        IF "modifiers" \in DOMAIN items[i]
        THEN [items[i] EXCEPT !["modifiers"] = SelectSeq(@, Active)]
        ELSE items[i]]

ChangeInactive(items, delta, qty) ==
    [i \in 1..Len(items) |->
        IF "modifiers" \in DOMAIN items[i]
        THEN [items[i] EXCEPT !["modifiers"] =
                 [j \in 1..Len(@) |->
                     IF Active(@[j]) THEN @[j]
                     ELSE SetKey(SetKey(@[j], "price_delta", delta), "quantity", qty)]]
        ELSE items[i]]

HasInactive(items) ==
    \E i \in 1..Len(items) :
        /\ "modifiers" \in DOMAIN items[i]
        /\ \E j \in 1..Len(items[i]["modifiers"]) : ~Active(items[i]["modifiers"][j])

\* C2: a modifier with is_active = false contributes nothing: removing the inactive
\* modifiers, or changing their price_delta and quantity, leaves subtotal, tax and
\* grand total as they are; 10.00 x 2 with an inactive 1.50 x 2 gives 20.00, 1.80, 21.80.
C2_InactiveModifiersFree ==
    \A i \in 1..Len(pricings) :
        /\ Money(prepare_invoice_lines(StripInactive(pricings[i].items), pricings[i].lang,
                                       pricings[i].show_prices, fp))
             = Money(pricings[i].out)
        /\ \A delta \in {-2500, 99990}, qty \in {0, 7} :
             Money(prepare_invoice_lines(ChangeInactive(pricings[i].items, delta, qty),
                                         pricings[i].lang, pricings[i].show_prices, fp))
               = Money(pricings[i].out)
        /\ pricings[i].items = <<Koshari(FALSE)>> =>
               Money(pricings[i].out) = <<20000, 1800, 21800>>

C2_Witness ==
    \E i \in 1..Len(pricings) :
        /\ HasInactive(pricings[i].items)
        /\ pricings[i].items = <<Koshari(FALSE)>>
        /\ pricings[i].out.grand_total = 21800

\* C3: while validate_order is served, from its call to its return, no request has
\* gone to the Persistence API and no message to the Messaging Gateway.
C3_ValidateNoOutbound ==
    op = "validate_order" => persistLog = <<>> /\ smsLog = <<>>

C3_Witness ==
    /\ op = "validate_order"
    /\ result # <<>>
    /\ result[1].kind = "return"
    /\ Len(result[1].response.order_lines) > 0

PersistSucceeded ==
    /\ res # <<>>
    /\ res[1].kind = "json"
    /\ "status" \in DOMAIN res[1].body
    /\ res[1].body["status"] = "success"

\* C4: create_order dispatches to the Messaging Gateway at most once, and only when
\* the Persistence API call of the same invocation has returned status "success".
C4_DispatchOnlyAfterSuccess ==
    op = "create_order" =>
        /\ Len(smsLog) <= 1
        /\ smsLog # <<>> => PersistSucceeded /\ persistLog # <<>>

C4_Witness ==
    /\ op = "create_order"
    /\ pc = "notifying"
    /\ Len(smsLog) = 1
    /\ PersistSucceeded

\* C5: every create_order invocation of the service (its argument passed validation
\* and was handed to RestaurantTools.create_order) makes exactly one Persistence API
\* call, and once that call has returned success, exactly one message dispatch.
C5_OnePersistOneDispatch ==
    op = "create_order" /\ order # <<>> =>
        /\ Len(persistLog) = 1
        /\ PersistSucceeded => Len(smsLog) = 1

C5_Witness ==
    /\ op = "create_order"
    /\ pc = "done"
    /\ result = <<Return(OrderCreated)>>
    /\ Len(persistLog) = 1
    /\ Len(smsLog) = 1

PersistRefused ==
    /\ res # <<>>
    /\ res[1].kind = "json"
    /\ "status" \in DOMAIN res[1].body
    /\ res[1].body["status"] # "success"

\* C6: when the Persistence API answers create_order with a status other than
\* "success", the invocation has ended, its result is the creation failure, and no
\* message was dispatched.
C6_RefusedFailsWithoutDispatch ==
    op = "create_order" /\ PersistRefused =>
        /\ pc = "done"
        /\ result = <<Return(OrderFailed)>>
        /\ smsLog = <<>>

C6_Witness ==
    /\ op = "create_order"
    /\ PersistRefused
    /\ res[1].body["status"] = "error"
    /\ result = <<Return(OrderFailed)>>

\* int(s) of a string of digits
RECURSIVE DigitsToInt(_)
DigitsToInt(ds) ==
    IF ds = <<>> THEN 0 ELSE 10 * DigitsToInt(SubSeq(ds, 1, Len(ds) - 1)) + ds[Len(ds)]

CarriesSessionIds(o) ==
    /\ {"customer_id", "business_id", "call_sid"} \subseteq DOMAIN o
    /\ o["customer_id"] = DigitsToInt(Initiate_call_result(o["call_sid"]).customer_id)
    /\ o["business_id"] = DigitsToInt(Initiate_call_result(o["call_sid"]).business_id)

\* C7: in create_order and validate_order the order handed to the service, and the
\* order sent to the Persistence API, carry the customer_id and business_id that
\* Initiate_call resolves for the order's call session, whatever the caller sent.
C7_IdsFromSession ==
    /\ order # <<>> => CarriesSessionIds(order[1])
    /\ \A i \in 1..Len(persistLog) : CarriesSessionIds(persistLog[i].payload.order)

C7_Witness ==
    /\ op = "create_order"
    /\ persistLog # <<>>
    /\ "customer_id" \in DOMAIN raw
    /\ raw["customer_id"] # persistLog[1].payload.order["customer_id"]
    /\ Initiate_call_result(raw["call_sid"]) \in sessions

\* C8: validate_order called with items = [] fails instead of returning a preview.
C8_EmptyOrderRejected ==
    (/\ op = "validate_order"
     /\ result # <<>>
     /\ "items" \in DOMAIN raw
     /\ raw["items"] = <<>>)
    => result[1].kind = "raise"

\* C9: a payload without an items key is rejected before anything else happens: the
\* call has ended with the validation error of its argument, no order was handed
\* on, nothing was priced, no request and no message went out.
C9_MissingItemsRejected ==
    op # "none" /\ "items" \notin DOMAIN raw =>
        /\ pc = "done"
        /\ result = <<Raise("ValidationError")>>
        /\ order = <<>>
        /\ pricings = <<>>
        /\ persistLog = <<>>
        /\ smsLog = <<>>

C9_Witness ==
    /\ op = "create_order"
    /\ "items" \notin DOMAIN raw
    /\ result = <<Raise("ValidationError")>>

\* C10: an item with neither base_price nor price is never priced: no call of
\* prepare_invoice_lines returns totals for a list that holds such an item.
C10_UnpricedItemRejected ==
    \A i \in 1..Len(pricings) :
        \A k \in 1..Len(pricings[i].items) :
            \/ "base_price" \in DOMAIN pricings[i].items[k]
            \/ "price" \in DOMAIN pricings[i].items[k]

----------------------------------------------------------------------------
(* generate_detailed_sms_invoice on its own: any answer of the Persistence *)
(* API, any language code, both modes; lang and show_prices may be left to *)
(* their defaults.                                                         *)

Langs == {"en", "ar", "fr", ""}

RenderOrders == Bodies([items |-> <<Koshari(TRUE), Falafel>>])

RenderCalls ==
    [fn : {"generate_detailed_sms_invoice"},
     args : [order : RenderOrders]
            \cup [order : RenderOrders, lang : Langs]
            \cup [order : RenderOrders, lang : Langs, show_prices : BOOLEAN]]

RenderInit ==
    /\ Quiet
    /\ pc = "probe"
    /\ env \in {e \in Envs : e.environ = <<"k1">> /\ e.dotenv = <<>>}
    /\ now = 1000
    /\ probe \in RenderCalls
    /\ calls = <<>>

Render ==
    /\ pc = "probe"
    /\ probe.fn = "generate_detailed_sms_invoice"
    /\ \E f \in FP :
        /\ fp' = f
        /\ probed' = <<generate_detailed_sms_invoice(probe.args.order,
                                                     Get(probe.args, "lang", "en"),
                                                     Get(probe.args, "show_prices", TRUE), f)>>
    /\ pc' = "done"
    /\ UNCHANGED <<sessions, op, raw, order, persistLog, res, pricings, smsLog, result,
                   env, now, issued, headers, probe, calls>>

RenderNext == Render

RenderSpec == RenderInit /\ [][RenderNext]_vars

----------------------------------------------------------------------------
(* validate_order and create_order invocations running side by side on the *)
(* one RestaurantTools instance.  What an invocation works on is local to  *)
(* it (a record of calls); what the invocations share is the instance,     *)
(* that is, its headers.                                                   *)

Threads == 1..MaxThreads

NoCall ==
    [pc |-> "idle", op |-> "none", raw |-> EmptyDict, order |-> <<>>, posts |-> <<>>,
     res |-> <<>>, pricings |-> <<>>, sms |-> <<>>, sent |-> <<>>, result |-> <<>>]

\* orders without half-way amounts: the roundings are the same for all of them
ConcOrders ==
    {r \in RawOrders :
        /\ "customer_id" \notin DOMAIN r
        /\ "items" \in DOMAIN r => r["items"] = <<Koshari(TRUE)>>}

ConcOutcomes(order_dict) ==
    {[kind |-> "network_error"],
     [kind |-> "json", body |-> [status |-> "failed"]],
     [kind |-> "json", body |-> [status |-> "success", order |-> order_dict,
                                 externals_order_id |-> "501"]]}

SelfAfterStamped(hdrs, order_dict) ==
    IF "call_sid" \in DOMAIN order_dict
    THEN SetKey(hdrs, "X-Call-Sid", order_dict["call_sid"])
    ELSE hdrs

\* self.headers after RestaurantTools.create_order or validate_order ran on
\* order_dict: lines 84-118 assign to no attribute of self
SelfAfter(hdrs, order_dict) == hdrs

\* the invocation after validate_order ran from its call to its return
AfterValidate(r, e) ==
    [pc |-> "done", op |-> "validate_order", raw |-> r, order |-> e.order, posts |-> e.posts,
     res |-> <<>>, pricings |-> e.pricings, sms |-> e.sms, sent |-> <<>>,
     result |-> <<e.result>>]

\* the invocation after create_order ran from its call to requests.post
AfterCreate(r, e) ==
    [pc |-> IF e.result = <<>> THEN "persisting" ELSE "done",
     op |-> "create_order", raw |-> r, order |-> e.order, posts |-> e.posts,
     res |-> <<>>, pricings |-> <<>>, sms |-> <<>>, sent |-> <<>>, result |-> e.result]

\* the invocation after requests.post answered
AfterAnswer(c, outcome, e) ==
    [c EXCEPT !.pc = IF e.result = <<>> THEN "notifying" ELSE "done",
              !.res = <<outcome>>,
              !.pricings = e.pricings,
              !.sms = e.sms,
              !.result = e.result]

\* the invocation after messages.create returned or raised
AfterSent(c, delivered) ==
    [c EXCEPT !.pc = "done",
              !.sent = <<delivered>>,
              !.result = <<RT_create_order_sent(delivered)>>]

ConcInit ==
    /\ Quiet
    /\ pc = "boot"
    /\ env \in {e \in Envs : e.dotenv = <<>> /\ e.environ # <<"">>}
    /\ now = 1000
    /\ probe = <<>>
    /\ calls = [t \in Threads |-> NoCall]

ConcValidateOrder ==
    /\ pc = "idle"
    /\ \E t \in Threads, r \in ConcOrders :
        /\ calls[t].pc = "idle"
        /\ calls' = [calls EXCEPT ![t] = AfterValidate(r, validate_order(r, NoFP))]
        /\ headers' = SelfAfter(headers, OrderDict(r))
    /\ UNCHANGED <<sessions, pc, op, raw, order, persistLog, res, pricings, smsLog, fp,
                   result, env, now, issued, probe, probed>>

ConcCreateOrder ==
    /\ pc = "idle"
    /\ \E t \in Threads, r \in ConcOrders :
        /\ calls[t].pc = "idle"
        /\ calls' = [calls EXCEPT ![t] = AfterCreate(r, create_order(r, headers))]
        /\ headers' = SelfAfter(headers, OrderDict(r))
    /\ UNCHANGED <<sessions, pc, op, raw, order, persistLog, res, pricings, smsLog, fp,
                   result, env, now, issued, probe, probed>>

ConcPersistenceAnswers ==
    /\ \E t \in Threads :
        /\ calls[t].pc = "persisting"
        /\ \E outcome \in ConcOutcomes(calls[t].order[1]) :
              calls' = [calls EXCEPT ![t] =
                           AfterAnswer(@, outcome,
                                       RT_create_order_answer(@.order[1], outcome, NoFP))]
    /\ UNCHANGED <<sessions, pc, op, raw, order, persistLog, res, pricings, smsLog, fp,
                   result, env, now, issued, headers, probe, probed>>

ConcMessagingAnswers ==
    /\ \E t \in Threads :
        /\ calls[t].pc = "notifying"
        /\ \E delivered \in BOOLEAN :
              calls' = [calls EXCEPT ![t] = AfterSent(@, delivered)]
    /\ UNCHANGED <<sessions, pc, op, raw, order, persistLog, res, pricings, smsLog, fp,
                   result, env, now, issued, headers, probe, probed>>

\* the caller of an invocation has its result; its worker takes the next call
ConcReturn ==
    /\ \E t \in Threads :
        /\ calls[t].pc = "done"
        /\ calls' = [calls EXCEPT ![t] = NoCall]
    /\ UNCHANGED <<sessions, pc, op, raw, order, persistLog, res, pricings, smsLog, fp,
                   result, env, now, issued, headers, probe, probed>>

ConcNext ==
    \/ Startup
    \/ ConcValidateOrder
    \/ ConcCreateOrder
    \/ ConcPersistenceAnswers
    \/ ConcMessagingAnswers
    \/ ConcReturn

ConcSpec == ConcInit /\ [][ConcNext]_vars

----------------------------------------------------------------------------
C13_DispatchFailureNotSurfaced ==
    (op = "create_order" /\ PersistSucceeded /\ smsLog # <<>> /\ pc = "done") =>
        result = <<Return(OrderCreated)>>

\* the Persistence API was not reached, or its body is not JSON or carries no status
PersistUnusable ==
    /\ res # <<>>
    /\ \/ res[1].kind \in {"network_error", "not_json"}
       \/ res[1].kind = "json" /\ "status" \notin DOMAIN res[1].body

\* C14: when the Persistence API call fails at the network level or its body has no
\* usable status, create_order ends by returning "Order creation Failed", after one
\* request and without any dispatch.
C14_UpstreamFailureReturned ==
    (op = "create_order" /\ PersistUnusable) =>
        /\ pc = "done"
        /\ result = <<Return(OrderFailed)>>
        /\ Len(persistLog) = 1
        /\ smsLog = <<>>

\* "<qty> <name>" for each modifier of a list
QtyNameLines(kind, xs, noName) ==
    [j \in 1..Len(xs) |->
        [kind |-> kind, qty |-> Get(xs[j], "quantity", 1), name |-> Get(xs[j], "name", noName)]]

\* the item and modifier lines a preview of the items is expected to have
RECURSIVE PreviewExpected(_)
PreviewExpected(items) ==
    IF items = <<>> THEN <<>>
    ELSE QtyNameLines("item", <<Head(items)>>, "Unknown Item")
         \o QtyNameLines("modifier", SelectSeq(Get(Head(items), "modifiers", <<>>), Active), "")
         \o PreviewExpected(Tail(items))

IsOrderLine(l) == l.kind # "note"

\* C15: the order_lines validate_order returns hold, in order, one line per item and
\* one line per active modifier, each made of a quantity and a name only (notes are
\* lines of their own); no line of a preview carries a unit price or a line total.
C15_PreviewWithoutPrices ==
    (op = "validate_order" /\ result # <<>> /\ result[1].kind = "return") =>
        /\ Len(pricings) = 1
        /\ pricings[1].show_prices = FALSE
        /\ result[1].response.order_lines = pricings[1].out.lines
        /\ SelectSeq(result[1].response.order_lines, IsOrderLine)
               = PreviewExpected(pricings[1].items)
        /\ \A i \in 1..Len(result[1].response.order_lines) :
               DOMAIN result[1].response.order_lines[i] \cap {"unit_price", "total"} = {}

C15_Witness ==
    /\ op = "validate_order"
    /\ result # <<>>
    /\ result[1].kind = "return"
    /\ Len(pricings[1].items) = 2
    /\ pricings[1].items[1]["modifiers"] = <<HalfPortion, GiftWrap>>
    /\ Len(result[1].response.order_lines) = 4
    /\ result[1].response.order_lines[2] = [kind |-> "modifier", qty |-> 1, name |-> "Half portion"]
    /\ result[1].response.order_lines[4] = [kind |-> "note", text |-> "no sugar"]

\* "<name> <qty>x$<unit> = $<total>" for each entry of a list
PricedLines(kind, xs, noName, fmtUp) ==
    [j \in 1..Len(xs) |->
        [kind |-> kind, name |-> Get(xs[j], "name", noName), qty |-> Get(xs[j], "quantity", 1),
         unit_price |-> Fmt2(IF kind = "item"
                             THEN Get(xs[j], "base_price", Get(xs[j], "price", 0))
                             ELSE Get(xs[j], "price_delta", 0), fmtUp),
         total |-> Fmt2(Get(xs[j], "quantity", 1)
                        * (IF kind = "item"
                           THEN Get(xs[j], "base_price", Get(xs[j], "price", 0))
                           ELSE Get(xs[j], "price_delta", 0)), fmtUp)]]

\* the item and modifier lines a receipt of the items is expected to have
RECURSIVE ReceiptExpected(_, _)
ReceiptExpected(items, fmtUp) ==
    IF items = <<>> THEN <<>>
    ELSE PricedLines("item", <<Head(items)>>, "Unknown Item", fmtUp)
         \o PricedLines("modifier", SelectSeq(Get(Head(items), "modifiers", <<>>), Active), "", fmtUp)
         \o ReceiptExpected(Tail(items), fmtUp)

\* the receipt was rendered with prices
RenderedReceipt ==
    /\ pc = "done"
    /\ probe.fn = "generate_detailed_sms_invoice"
    /\ Get(probe.args, "show_prices", TRUE) = TRUE

\* C16: a receipt rendered with prices is, in this order: the thank-you header, the
\* order-id line, (a separator,) the priced lines of the items and their active
\* modifiers with quantity, name, unit price and line total, the subtotal line, the
\* tax line, the grand-total line and the closing line; the three totals are the
\* subtotal, tax and grand total pricing computed for the same items.
C16_ReceiptLayout ==
    RenderedReceipt =>
        LET b == probed[1].body
            n == Len(b)
            out == probed[1].pricing.out
            items == Get(Get(probe.args.order, "order", <<>>), "items", <<>>)
        IN  /\ n >= 7
            /\ b[1].kind = "text"
            /\ b[1].text \in {"shukran li-talabik min Masrawy", "Thank you for your order from Masrawy"}
            /\ b[2].kind = "field"
            /\ b[2].label \in {"raqm al-talab", "Order ID"}
            /\ b[2].value = Get(probe.args.order, "externals_order_id", "")
            /\ b[3] = [kind |-> "text", text |-> "\n"]
            /\ SelectSeq(SubSeq(b, 4, n - 4), IsOrderLine) = ReceiptExpected(items, fp.fmt)
            /\ b[n - 3].kind = "amount"
            /\ b[n - 3].label \in {"al-majmu", "Total"}
            /\ b[n - 3].cents = Fmt2(SumSeq(ItemAmounts(items)), fp.fmt)
            /\ b[n - 2].kind = "amount"
            /\ b[n - 2].label \in {"al-dariba", "Tax"}
            /\ b[n - 2].cents = Fmt2(out.tax, fp.fmt)
            /\ b[n - 1].kind = "amount"
            /\ b[n - 1].label \in {"al-ijmali", "Grand Total"}
            /\ b[n - 1].cents = Fmt2(out.grand_total, fp.fmt)
            /\ b[n].kind = "text"
            /\ b[n].text \in {"shukran li-talabik!", "Thank you for your order!"}
            /\ out.total = SumSeq(ItemAmounts(items))
            /\ IsRound2(out.tax, out.total * 9, 100)
            /\ IsRound2(out.grand_total, out.total + out.tax, 1)

C16_Witness ==
    /\ RenderedReceipt
    /\ InvoiceItems(probe.args.order) = <<Koshari(TRUE), Falafel>>
    /\ Len(probed[1].body) = 11
    /\ probed[1].body[5].unit_price = 150
    /\ probed[1].body[8].cents = 2376
    /\ probed[1].body[10].cents = 2589

\* C17: the receipt create_order hands to the Messaging Gateway is rendered in the
\* language of the order: for language_code "ar" its header, its order-id label,
\* its total labels and its closing line are the Arabic ones.
C17_ReceiptInOrderLocale ==
    (op = "create_order" /\ smsLog # <<>> /\ order[1]["language_code"] = "ar") =>
        LET b == smsLog[1].body
            n == Len(b)
        IN  /\ b[1].text = "shukran li-talabik min Masrawy"
            /\ b[2].label = "raqm al-talab"
            /\ b[n - 3].label = "al-majmu"
            /\ b[n - 2].label = "al-dariba"
            /\ b[n - 1].label = "al-ijmali"
            /\ b[n].text = "shukran li-talabik!"

ArabicLabels ==
    {"shukran li-talabik min Masrawy", "raqm al-talab", "al-majmu", "al-dariba", "al-ijmali",
     "shukran li-talabik!"}

EnglishLabels ==
    {"Thank you for your order from Masrawy", "Order ID", "Total", "Tax", "Grand Total",
     "Thank you for your order!"}

\* the labels a rendered receipt or preview uses: its fixed texts but the separator,
\* and the labels of its order-id and amount lines
LabelsOf(b) ==
    {b[i].text : i \in {j \in 1..Len(b) : b[j].kind = "text" /\ b[j].text # "\n"}}
    \cup {b[i].label : i \in {j \in 1..Len(b) : b[j].kind \in {"field", "amount"}}}

Rendered ==
    /\ pc = "done"
    /\ probe.fn = "generate_detailed_sms_invoice"

\* C18: rendered for any language code other than "ar" (the default, "en", an
\* unknown or an empty one), every label is the English one; and whatever the
\* language code, the labels are all Arabic or all English, never a mix.
C18_EnglishUnlessArabic ==
    Rendered =>
        /\ LabelsOf(probed[1].body) \subseteq ArabicLabels
           \/ LabelsOf(probed[1].body) \subseteq EnglishLabels
        /\ Get(probe.args, "lang", "en") # "ar" =>
              /\ LabelsOf(probed[1].body) \subseteq EnglishLabels
              /\ probed[1].body[1].text = "Thank you for your order from Masrawy"
              /\ probed[1].body[2].label = "Order ID"
              /\ probed[1].body[Len(probed[1].body) - 1].label = "Grand Total"
              /\ probed[1].body[Len(probed[1].body)].text = "Thank you for your order!"

C18_Witness ==
    /\ Rendered
    /\ "lang" \in DOMAIN probe.args
    /\ probe.args.lang = "fr"
    /\ Get(probe.args, "show_prices", TRUE) = TRUE
    /\ LabelsOf(probed[1].body) = EnglishLabels

\* the order has its five fields, each item the given fields and "modifiers", and
\* each modifier its six fields
CompleteOrder(r, itemFields) ==
    /\ {"call_sid", "language_code", "business_phone", "customer_phone", "items"}
          \subseteq DOMAIN r
    /\ \A i \in 1..Len(r["items"]) :
          /\ itemFields \cup {"modifiers"} \subseteq DOMAIN r["items"][i]
          /\ \A j \in 1..Len(r["items"][i]["modifiers"]) :
                {"modifier_group_id", "modifier_id", "name", "price_delta", "quantity",
                 "is_active"} \subseteq DOMAIN r["items"][i]["modifiers"][j]

\* C19: an order whose items are complete but for options is accepted by
\* validate_order and create_order; in the order they hand on every item has
\* options, the ones it arrived with, or the empty list when it arrived without.
C19_OptionsDefaulted ==
    (op \in {"validate_order", "create_order"}
     /\ CompleteOrder(raw, {"item_id", "name", "base_price", "quantity", "note"})) =>
        /\ order # <<>>
        /\ Len(order[1]["items"]) = Len(raw["items"])
        /\ \A i \in 1..Len(raw["items"]) :
              /\ "options" \in DOMAIN order[1]["items"][i]
              /\ order[1]["items"][i]["options"] =
                    (IF "options" \in DOMAIN raw["items"][i]
                     THEN raw["items"][i]["options"] ELSE <<>>)

C19_Witness ==
    /\ op = "create_order"
    /\ Len(persistLog) = 1
    /\ Len(raw["items"]) = 2
    /\ "options" \notin DOMAIN raw["items"][1]
    /\ order[1]["items"][1]["options"] = <<>>
    /\ order[1]["items"][2]["options"] = <<[size |-> "L"]>>
    /\ persistLog[1].payload.order["items"][1]["options"] = <<>>

\* C20: an order whose items are complete but for note is accepted by
\* validate_order and create_order, and in the order they hand on to pricing and to
\* the Persistence API every item that arrived without a note has note = "".
C20_NoteDefaulted ==
    (op \in {"validate_order", "create_order"}
     /\ CompleteOrder(raw, {"item_id", "name", "base_price", "quantity"})) =>
        /\ order # <<>>
        /\ \A i \in 1..Len(raw["items"]) :
              "note" \notin DOMAIN raw["items"][i] => order[1]["items"][i]["note"] = ""

\* C21: whenever a request goes out to the Persistence API, it carries the bearer
\* token the issuer produced, and the clock has not reached that token's exp.
C21_TokenUnexpiredWhenSent ==
    [][Len(persistLog') > Len(persistLog) =>
          /\ "Authorization" \in DOMAIN persistLog'[Len(persistLog')].headers
          /\ persistLog'[Len(persistLog')].headers["Authorization"].token = issued[1].response
          /\ now < persistLog'[Len(persistLog')].headers["Authorization"].token.payload.exp]_vars

\* C22: once create_order has called the Persistence API, the order has been
\* normalized and priced, and the order in the request is the normalized order.
C22_PricedBeforePersisted ==
    (op = "create_order" /\ persistLog # <<>>) =>
        /\ order # <<>>
        /\ persistLog[1].payload.order = order[1]
        /\ order[1]["customer_id"] = 33
        /\ order[1]["business_id"] = 97
        /\ pricings # <<>>

TokenIssued ==
    /\ pc = "done"
    /\ probe.fn = "generate_jwt_token"

C24_NormalizationIdempotent ==
    order # <<>> =>
        /\ EnsureOptions(OverrideIds(order[1])) = order[1]
        /\ EnsureOptions(order[1]) = order[1]
        /\ OverrideIds(order[1]) = order[1]
        /\ NormalizeOrder(order[1]) = order[1]

C24_Witness ==
    /\ order # <<>>
    /\ "customer_id" \in DOMAIN raw
    /\ raw["customer_id"] # order[1]["customer_id"]
    /\ Len(raw["items"]) = 2
    /\ "options" \notin DOMAIN raw["items"][2]
    /\ "options" \in DOMAIN raw["items"][1]
    /\ raw["items"][1]["options"] # <<>>
    /\ EnsureOptions(OverrideIds(order[1])) = order[1]

\* what a line is about: its kind and its name, or its text for a note
TagOf(l) == <<l.kind, IF l.kind = "note" THEN l.text ELSE l.name>>

TagsOf(ls) == [i \in 1..Len(ls) |-> TagOf(ls[i])]

HasNote(item) ==
    /\ "note" \in DOMAIN item
    /\ item["note"] \notin {"", "None"}

\* item, then its active modifiers in input order, then its note, item after item
RECURSIVE TraversalTags(_)
TraversalTags(items) ==
    IF items = <<>> THEN <<>>
    ELSE << <<"item", Get(Head(items), "name", "Unknown Item")>> >>
         \o [j \in 1..Len(SelectSeq(Get(Head(items), "modifiers", <<>>), Active)) |->
                <<"modifier", Get(SelectSeq(Get(Head(items), "modifiers", <<>>), Active)[j],
                                  "name", "")>>]
         \o (IF HasNote(Head(items)) THEN << <<"note", Head(items)["note"]>> >> ELSE <<>>)
         \o TraversalTags(Tail(items))

\* C25: in every pricing, preview or receipt, the lines follow the traversal of the
\* items: for each item in input order its item line, then one line per active
\* modifier in input order, then its note, verbatim and on its own line, when it
\* has one.
C25_LinesFollowTraversal ==
    \A i \in 1..Len(pricings) :
        TagsOf(pricings[i].out.lines) = TraversalTags(pricings[i].items)

C25_Witness ==
    /\ op = "create_order"
    /\ Len(pricings) = 1
    /\ pricings[1].items = <<BothPrices, PricedOnly>>
    /\ TagsOf(pricings[1].out.lines) =
          << <<"item", "Falafel">>, <<"modifier", "Tahini">>, <<"note", "well done">>,
             <<"item", "Koshari">> >>

IsItemLine(l) == l.kind = "item"

\* base_price when the item has one, else price when it has one, else nothing
PriceOf(item) ==
    IF "base_price" \in DOMAIN item THEN item["base_price"]
    ELSE IF "price" \in DOMAIN item THEN item["price"]
    ELSE 0

\* C26: on every priced item line the unit price is the item's base_price when it
\* has one, whether or not it also has a price, and its price only when it has no
\* base_price; the line total is that unit price times the quantity.
C26_BasePriceFirst ==
    \A i \in 1..Len(pricings) :
        pricings[i].show_prices =>
            /\ Len(SelectSeq(pricings[i].out.lines, IsItemLine)) = Len(pricings[i].items)
            /\ \A k \in 1..Len(pricings[i].items) :
                  /\ SelectSeq(pricings[i].out.lines, IsItemLine)[k].unit_price =
                        Fmt2(PriceOf(pricings[i].items[k]), fp.fmt)
                  /\ SelectSeq(pricings[i].out.lines, IsItemLine)[k].total =
                        Fmt2(PriceOf(pricings[i].items[k])
                             * Get(pricings[i].items[k], "quantity", 1), fp.fmt)

C26_Witness ==
    /\ Len(pricings) = 1
    /\ pricings[1].show_prices
    /\ pricings[1].items = <<BothPrices, PricedOnly>>
    /\ pricings[1].out.lines[1].unit_price \in {125, 126}
    /\ pricings[1].out.lines[4].unit_price = 900
    /\ pricings[1].out.total = 1255 + 250 + 9000

\* C27: a create_order invocation that is waiting for the Persistence API or for
\* the Messaging Gateway eventually ends with a result, whether or not they answer.
C27_CreateOrderEnds ==
    (op = "create_order" /\ pc \in {"persisting", "notifying"}) ~> (pc = "done" /\ result # <<>>)

\* what an invocation is when the same call, with the same answers from the
\* Persistence API and the Messaging Gateway, runs with nothing beside it on the
\* instance as the import left it
AloneCreated(c, hdrs) == AfterCreate(c.raw, create_order(c.raw, hdrs))

AloneAnswered(c, a) ==
    IF c.res = <<>> THEN a
    ELSE AfterAnswer(a, c.res[1], RT_create_order_answer(a.order[1], c.res[1], NoFP))

AloneSent(c, b) ==
    IF c.sent = <<>> THEN b ELSE AfterSent(b, c.sent[1])

Alone(c, hdrs) ==
    IF c.op = "none" THEN NoCall
    ELSE IF c.op = "validate_order" THEN AfterValidate(c.raw, validate_order(c.raw, NoFP))
    ELSE AloneSent(c, AloneAnswered(c, AloneCreated(c, hdrs)))

\* C28: however validate_order and create_order invocations interleave, the shared
\* instance stays as the import left it, and the result, the request and the
\* message of each invocation are those of the same call running alone.
C28_InvocationsIndependent ==
    (pc = "idle" /\ calls # <<>>) =>
        /\ headers = HeadersOf(issued[1])
        /\ \A t \in Threads : calls[t] = Alone(calls[t], HeadersOf(issued[1]))

C28_Witness ==
    /\ pc = "idle"
    /\ calls # <<>>
    /\ calls[1].pc = "notifying"
    /\ calls[1].raw["language_code"] = "ar"
    /\ calls[2].pc = "persisting"
    /\ calls[2].raw["language_code"] = "en"
    /\ calls[2].posts[1].payload.order["language_code"] = "en"
    /\ calls[1].sms[1].to = "+15550002"

\* C29: the grand total on the receipt create_order dispatches is the grand_Total
\* validate_order returns for the same normalized order (with the same roundings),
\* whatever body came with the Persistence API's "success".
C29_ReceiptTotalIsPreviewTotal ==
    (op = "create_order" /\ smsLog # <<>>) =>
        smsLog[1].body[Len(smsLog[1].body) - 1].cents =
            Fmt2(RT_validate_order(order[1], fp).result.response.grand_Total, fp.fmt)

====
